---- MODULE Spec2Model ----
(***************************************************************************)
(* Model of the two LLM batch stages of src/app.py:                        *)
(*   stage "A" = run_ai_classifier          (sheet "Ingredienten Database")*)
(*   stage "F" = run_first_pass_and_review  (sheet "Producten Input")      *)
(* A response of the completion client is a sequence of lines; a line is a *)
(* sequence of tokens (numbers and words) separated by blanks/punctuation. *)
(***************************************************************************)
EXTENDS Integers, Sequences, FiniteSets, TLC

\* ------------------------------------------------------------------ bounds
MaxRows == 2          \* tables of at most MaxRows rows get every free-form line
MaxTokens == 4        \* tokens per free-form response line
MaxBatches == 6       \* longest run: MaxBatches full batches
MaxPrior == 1         \* already classified rows in front of a long table

\* ------------------------------------------------------- program constants
batch_size_A == 30
batch_size_F == 20
CheckpointEvery == 3
ScenarioRows == 45

geldige_class == {"Dierlijk", "Plantaardig", "Combinatie"}

\* ----------------------------------------------------------------- tokens
Num(v) == [num |-> v, w |-> ""]
Wd(s) == [num |-> -1, w |-> s]
IsNum(t) == t.num >= 0
NaNLine == <<[num |-> -2, w |-> "nan"]>>
\* a run of digits longer than int() converts where the interpreter limits the
\* length of integer strings (CPython: 4300 digits); where it converts, the
\* value lies beyond every row index
TooLong == [num |-> batch_size_A * batch_size_A * batch_size_A, w |-> "4301 digits"]

\* str.lower() on the words of the alphabet
Lower(s) ==
  CASE s = "Wel" -> "wel"
    [] s = "Niet" -> "niet"
    [] s = "Plantaardig" -> "plantaardig"
    [] s = "Dierlijk" -> "dierlijk"
    [] s = "Niet relevant" -> "niet relevant"
    [] s = "ID:" -> "id:"
    [] OTHER -> s

\* kw in s   (substring test on lower-cased text)
Contains(s, kw) ==
  CASE kw = "wel" -> s = "wel"
    [] kw = "niet" -> s \in {"niet", "niet relevant"}
    [] kw = "plantaardig" -> s = "plantaardig"
    [] kw = "dierlijk" -> s = "dierlijk"
    [] kw = "relevant" -> s = "niet relevant"
    [] OTHER -> s = kw

\* kw in line.lower()
InCleanLine(line, kw) ==
  \E p \in 1..Len(line) : ~IsNum(line[p]) /\ Contains(Lower(line[p].w), kw)

\* "ID:" in l   (case sensitive, on the raw line)
HasIDMarker(line) ==
  \E p \in 1..Len(line) : ~IsNum(line[p]) /\ line[p].w = "ID:"

\* re.findall(r'\d+', line)
all_numbers(line) ==
  LET F[p \in 0..Len(line)] ==
        IF p = 0 THEN <<>>
        ELSE IF IsNum(line[p]) THEN Append(F[p-1], line[p].num) ELSE F[p-1]
  IN F[Len(line)]

\* the role keyword chain of run_ai_classifier
RolNietFirst(line) ==
  IF InCleanLine(line, "niet") THEN "Niet"
  ELSE IF InCleanLine(line, "wel") THEN "Wel"
  ELSE ""
rol(line) ==
  IF InCleanLine(line, "wel") THEN "Wel"
  ELSE IF InCleanLine(line, "niet") THEN "Niet"
  ELSE ""

\* the origin keyword chain of run_ai_classifier
OorsprongDierFirst(line) ==
  IF InCleanLine(line, "dierlijk") THEN "Dierlijk"
  ELSE IF InCleanLine(line, "plantaardig") THEN "Plantaardig"
  ELSE IF InCleanLine(line, "relevant") THEN "Niet relevant"
  ELSE ""
oorsprong(line) ==
  IF InCleanLine(line, "plantaardig") THEN "Plantaardig"
  ELSE IF InCleanLine(line, "dierlijk") THEN "Dierlijk"
  ELSE IF InCleanLine(line, "relevant") THEN "Niet relevant"
  ELSE ""

\* leading run of letters of a word, as matched by [A-Za-z...]+
Letters(s) ==
  CASE s = "ID:" -> "ID"
    [] s = "oordeel:" -> "oordeel"
    [] s = "rationale:" -> "rationale"
    [] OTHER -> s

\* str.capitalize()
Capitalize(s) ==
  CASE s = "ID" -> "Id"
    [] s = "oordeel" -> "Oordeel"
    [] s = "rationale" -> "Rationale"
    [] s = "dierlijk" -> "Dierlijk"
    [] s = "plantaardig" -> "Plantaardig"
    [] OTHER -> s

\* positions where re.search(r'oordeel\s*[:]\s*([A-Za-z...]+)') can match
OordeelAt(line) ==
  {p \in 1..Len(line) :
      /\ ~IsNum(line[p]) /\ Lower(line[p].w) = "oordeel:"
      /\ p < Len(line) /\ ~IsNum(line[p+1])}
oordeel_match(line) == OordeelAt(line) # {}
oordeel(line) ==
  LET p == CHOOSE q \in OordeelAt(line) : \A o \in OordeelAt(line) : q <= o
  IN Capitalize(Letters(line[p+1].w))

\* re.search(r'rationale\s*:\s*(.+)'): the rest of the line, "" when absent
RationaleAt(line) ==
  {p \in 1..Len(line) :
      ~IsNum(line[p]) /\ Lower(line[p].w) = "rationale:" /\ p < Len(line)}
rationale(line) ==
  IF RationaleAt(line) = {} THEN <<>>
  ELSE LET p == CHOOSE q \in RationaleAt(line) : \A o \in RationaleAt(line) : q <= o
       IN SubSeq(line, p + 1, Len(line))


\* ------------------------------------------------------------ cell values
NaN == "<NaN>"
\* Series.astype(str)
Str(v) == IF v = NaN THEN "nan" ELSE v
\* str.strip() on the label values of the model
Strip(s) == IF s = " " THEN "" ELSE s
\* DataFrame.fillna("") / where(notnull, None) on one string cell
FillCell(v) == IF v = NaN THEN "" ELSE v
\* the same on a text cell holding a response line
FillLine(v) == IF v = NaNLine THEN <<>> ELSE v

\* standardize(val) of run_first_pass_and_review
standardize(val) ==
  CASE val \in {"Combi", "Plantaardig/Dierlijk combi"} -> "Combinatie"
    [] val \in {"Plantaardig", "plantaardige eiwitten"} -> "Plantaardig"
    [] val \in {"Dierlijk", "dierlijke eiwitten"} -> "Dierlijk"
    [] OTHER -> "Onbekend"

\* determine_review(row) of run_first_pass_and_review
determine_review(row) ==
  LET ai_val == Strip(Str(row.label))
      supermarkt_val == row.std
  IN IF ai_val = "" \/ supermarkt_val = "Onbekend" THEN "ja"
     ELSE IF ai_val = supermarkt_val THEN "nee" ELSE "ja"

\* ------------------------------------------------------------------ state
VARIABLES
  stage,            \* "A" run_ai_classifier, "F" run_first_pass_and_review
  pc,               \* position in the run
  sheet,            \* the worksheet: [header, rows]
  df,               \* the DataFrame, indexed 0..n-1
  indices,          \* to_process.index.tolist()
  batch_num,        \* batch counter (0 before the first batch)
  lines,            \* response lines under the parser
  k,                \* number of response lines consumed
  count_processed,  \* commits counted by run_ai_classifier
  prompts,          \* history: the batches submitted to call_gemini
  failed,           \* history: batch numbers whose call raised
  writes,           \* history: completed checkpoint writes
  ckpt,             \* history: the sheet as of the last completed write
  written_by        \* history: row -> batch number that last wrote it

vars == <<stage, pc, sheet, df, indices, batch_num, lines, k, count_processed,
          prompts, failed, writes, ckpt, written_by>>

Rows(t) == DOMAIN t
batch_size == IF stage = "A" THEN batch_size_A ELSE batch_size_F

\* the mask of run_ai_classifier: empty after strip, or null
MaskExactlyEmpty(v) == v = "" \/ v = NaN
MaskA(v) == Strip(Str(v)) = "" \/ v = NaN
\* the mask of run_first_pass_and_review: not one of geldige_class
MaskF(v) == Str(v) \notin geldige_class
mask(st, v) == IF st = "A" THEN MaskA(v) ELSE MaskF(v)

\* ascending list of the members of a finite set of naturals
SortedSeq(S) ==
  [j \in 1..Cardinality(S) |->
     CHOOSE x \in S : Cardinality({y \in S : y < x}) = j - 1]

\* df[mask].index.tolist()
to_process(st, t) == SortedSeq({r \in Rows(t) : mask(st, t[r].label)})

total_to_do == Len(indices)
\* ceil(total / batch_size): the length of range(0, total, batch_size)
NumBatchesFloor == total_to_do \div batch_size
NumBatches == (total_to_do + batch_size - 1) \div batch_size

\* indices[i : i + batch_size] for the b-th batch (b >= 1)
BatchOf(b) ==
  SubSeq(indices, (b - 1) * batch_size + 1,
         IF b * batch_size < total_to_do THEN b * batch_size ELSE total_to_do)
batch_indices == BatchOf(batch_num)

\* pd.DataFrame(sheet.get_all_records())
Load(sh) == sh.rows

EmptySheet == [header |-> FALSE, rows |-> <<>>]
\* df.fillna("").values.tolist() and its two variants in stage F
Serialise(t) ==
  [r \in Rows(t) |->
     [t[r] EXCEPT !.label = FillCell(@), !.datum = FillCell(@), !.antw = FillLine(@)]]


\* ------------------------------------------------------------- the parsers
\* line 193: idx = int(all_numbers[0])
LastNumber(line) == all_numbers(line)[Len(all_numbers(line))]
idx_of(line) == all_numbers(line)[1]

\* line 193: the outcomes of int(all_numbers[0]): TRUE = it raises ValueError.
\* Only a digit run over the interpreter's limit can raise, and only where
\* the interpreter has such a limit.
IntRaises(st, line) ==
  IF st = "A" /\ line # <<>> /\ all_numbers(line) # <<>>
       /\ all_numbers(line)[1] = TooLong.num
  THEN {TRUE, FALSE}
  ELSE {FALSE}

\* line 207: idx in df.index and rol and oorsprong
CommitNeedsRole(r, o) == r # ""
CommitFields(r, o) == r # "" /\ o # ""

CommitsA(t, line) ==
  /\ line # <<>>
  /\ all_numbers(line) # <<>>
  /\ idx_of(line) \in Rows(t)
  /\ CommitFields(rol(line), oorsprong(line))

\* lines 185-211: one response line merged into the DataFrame
MergeLineA(t, line) ==
  IF CommitsA(t, line)
  THEN [t EXCEPT ![idx_of(line)] = [@ EXCEPT !.aux = rol(line),
                                             !.label = oorsprong(line),
                                             !.datum = "nu"]]
  ELSE t

\* lines 315-336: the i-th "ID:" line merged into the i-th row of the batch
StoreAntwoord(row, line) == [row EXCEPT !.antw = line]

MergeLineFById(t, real_idx, line) ==
  LET target == IF all_numbers(line) # <<>> /\ idx_of(line) \in Rows(t)
                THEN idx_of(line) ELSE real_idx
      seen == [t EXCEPT ![target] = StoreAntwoord(@, line)]
  IN IF ~oordeel_match(line) THEN seen
     ELSE [seen EXCEPT ![target] = [@ EXCEPT !.label = oordeel(line),
                                             !.aux = rationale(line),
                                             !.datum = "nu"]]
MergeLineF(t, real_idx, line) ==
  LET seen == [t EXCEPT ![real_idx] = StoreAntwoord(@, line)]
  IN IF ~oordeel_match(line) THEN seen
     ELSE [seen EXCEPT ![real_idx] = [@ EXCEPT !.label = oordeel(line),
                                               !.aux = rationale(line),
                                               !.datum = "nu"]]

\* --------------------------------------------------------------- responses
Range(q) == {q[p] : p \in 1..Len(q)}

\* sequences without repetition over S, of length at most m
RECURSIVE InjSeqs(_, _)
InjSeqs(S, m) ==
  IF m = 0 THEN {<<>>}
  ELSE LET P == InjSeqs(S, m - 1)
       IN P \cup UNION {{Append(q, t) : t \in S \ Range(q)} :
                          q \in {x \in P : Len(x) = m - 1}}

TokensA == {Num(0), Num(1), Wd("Wel"), Wd("Niet"),
            Wd("Plantaardig"), Wd("Dierlijk"), Wd("Niet relevant")}
TokensF == {Wd("ID:"), Num(0), Num(1), Wd("oordeel:"),
            Wd("Plantaardig"), Wd("dierlijk"), Wd("rationale:")}
FreeLinesA == InjSeqs(TokensA, MaxTokens)
FreeLinesF == InjSeqs(TokensF, MaxTokens)

\* a well-formed answer line for row idx, in the format the prompt asks for
AnswerLine(st, idx, good) ==
  IF st = "A"
  THEN <<Num(idx), Wd(IF good THEN "Wel" ELSE "Niet"),
         Wd(IF good THEN "Plantaardig" ELSE "Dierlijk")>>
  ELSE <<Wd("ID:"), Num(idx), Wd("oordeel:"),
         Wd(IF good THEN "Plantaardig" ELSE "dierlijk")>>

\* lines that cannot be committed: blank, without an id, without a field
Malformed(st, idx) ==
  IF st = "A"
  THEN {<<>>, <<Wd("Wel"), Wd("Plantaardig")>>, <<Num(idx), Wd("Wel")>>,
        <<TooLong, Wd("Wel"), Wd("Plantaardig")>>}
  ELSE {<<>>, <<Wd("oordeel:"), Wd("Plantaardig")>>, <<Wd("ID:"), Num(idx)>>}

\* the texts call_gemini may return for batch b: for a short table every
\* one-line text and every malformed line followed by an answer; for every
\* table an answer for the first row of the batch, alone or followed by a
\* line that names a row outside the batch
Responses(st, t, b) ==
  LET own == BatchOf(b)[1]
      other == IF b > 1 THEN BatchOf(b - 1)[1] ELSE 0
  IN (IF Cardinality(Rows(t)) <= MaxRows
      THEN {<<l>> : l \in IF st = "A" THEN FreeLinesA ELSE FreeLinesF}
             \cup {<<>>}
             \cup {<<m, AnswerLine(st, own, TRUE)>> : m \in Malformed(st, own)}
      ELSE {})
     \cup {<<AnswerLine(st, own, TRUE)>>,
           <<AnswerLine(st, own, TRUE), AnswerLine(st, other, FALSE)>>}

\* raw_response.split('\n') with the filter of each stage
SplitLines(st, resp) ==
  IF st = "A" THEN resp ELSE SelectSeq(resp, HasIDMarker)

\* ------------------------------------------------------------------- Init
LabelDomain == {"", " ", "Plantaardig", "Onbekend"}
SmOf(r) == IF r % 3 = 0 THEN "plantaardige eiwitten"
           ELSE IF r % 3 = 1 THEN "Dierlijk" ELSE ""

InitRow(st, r, lab) ==
  [label |-> lab,
   aux |-> IF st = "A" THEN (IF lab = "Plantaardig" THEN "Wel" ELSE "")
           ELSE (IF lab = "Plantaardig" THEN <<Wd("oud")>> ELSE <<>>),
   datum |-> IF lab \in {"Plantaardig", "Onbekend"} THEN "oud" ELSE "",
   antw |-> <<>>,
   sm |-> IF st = "A" THEN "" ELSE SmOf(r),
   std |-> "",
   review |-> ""]

InitWith(st, labels) ==
  /\ stage = st
  /\ pc = "idle"
  /\ sheet = [header |-> TRUE,
              rows |-> [r \in DOMAIN labels |-> InitRow(st, r, labels[r])]]
  /\ df = <<>>
  /\ indices = <<>>
  /\ batch_num = 0
  /\ lines = <<>>
  /\ k = 0
  /\ count_processed = 0
  /\ prompts = <<>>
  /\ failed = {}
  /\ writes = <<>>
  /\ ckpt = sheet
  /\ written_by = [r \in DOMAIN labels |-> 0]

\* short tables with every combination of label values
Init ==
  \E st \in {"A", "F"}, n \in 0..MaxRows :
    \E labels \in [0..(n - 1) -> LabelDomain] : InitWith(st, labels)

\* long tables: MaxPrior classified rows followed by u unresolved rows; u is
\* a number of full batches, one full batch and a single row, or ScenarioRows
RunSizes(st) ==
  LET bs == IF st = "A" THEN batch_size_A ELSE batch_size_F
  IN {b * bs : b \in 0..MaxBatches} \cup {bs + 1} \cup {ScenarioRows}
LongTable(v, u) == [r \in 0..(v + u - 1) |-> IF r < v THEN "Plantaardig" ELSE ""]
InitRun ==
  \E st \in {"A", "F"} :
    \E u \in RunSizes(st) : InitWith(st, LongTable(MaxPrior, u))

\* ---------------------------------------------------------------- actions
History == <<prompts, failed, writes, ckpt, written_by>>

\* lines 134-137 / 238-241: get_google_sheet_client() returned None
StartFail ==
  /\ pc = "idle"
  /\ pc' = "aborted"
  /\ UNCHANGED <<stage, sheet, df, indices, batch_num, lines, k,
                 count_processed, History>>

\* lines 143-161 / 253-267: load the sheet and select the rows to process
Start ==
  /\ pc = "idle"
  /\ df' = Load(sheet)
  /\ indices' = to_process(stage, df')
  /\ pc' = IF Len(indices') > 0 THEN "call"
           ELSE IF stage = "A" THEN "done" ELSE "review"
  /\ UNCHANGED <<stage, sheet, batch_num, lines, k, count_processed, History>>

\* lines 215-216 / 340-341: where the run goes when the try block raises
RaiseEscapes == "aborted"
OnCallError == "after"

\* lines 163-182, 215-216 / 269-294, 340-341: the next batch is encoded and
\* submitted, and call_gemini raises
CallFail ==
  /\ pc = "call"
  /\ batch_num' = batch_num + 1
  /\ prompts' = Append(prompts, BatchOf(batch_num'))
  /\ failed' = failed \cup {batch_num'}
  /\ pc' = OnCallError
  /\ UNCHANGED <<stage, sheet, df, indices, lines, k, count_processed,
                 writes, ckpt, written_by>>

\* lines 163-185 / 269-308: the next batch is encoded and submitted, and
\* call_gemini returns a text
CallOk ==
  /\ pc = "call"
  /\ batch_num' = batch_num + 1
  /\ prompts' = Append(prompts, BatchOf(batch_num'))
  /\ \E resp \in Responses(stage, df, batch_num') :
       lines' = SplitLines(stage, resp)
  /\ k' = 0
  /\ pc' = "parse"
  /\ UNCHANGED <<stage, sheet, df, indices, count_processed,
                 failed, writes, ckpt, written_by>>

\* line 312: the positional loop of stage F stops at the end of the batch
MoreLines ==
  /\ k < Len(lines)
  /\ stage = "F" => k < Len(batch_indices)

\* lines 185-211, 215-216 / 311-336: the next response line is parsed and
\* merged; an exception raised by the line is caught by the handler of the
\* batch, which drops the rest of the response
ParseLine ==
  /\ pc = "parse"
  /\ MoreLines
  /\ LET line == lines[k + 1]
     IN \E raised \in IntRaises(stage, line) :
          IF raised
          THEN /\ pc' = OnCallError
               /\ lines' = <<>>
               /\ k' = 0
               /\ UNCHANGED <<df, count_processed, written_by>>
          ELSE /\ pc' = pc
               /\ lines' = lines
               /\ k' = k + 1
               /\ IF stage = "A"
                  THEN /\ df' = MergeLineA(df, line)
                       /\ count_processed' =
                            IF CommitsA(df, line) THEN count_processed + 1
                            ELSE count_processed
                       /\ written_by' =
                            IF CommitsA(df, line)
                            THEN [written_by EXCEPT ![idx_of(line)] = batch_num]
                            ELSE written_by
                  ELSE /\ df' = MergeLineF(df, batch_indices[k + 1], line)
                       /\ count_processed' = count_processed
                       /\ written_by' =
                            [written_by EXCEPT ![batch_indices[k + 1]] = batch_num]
  /\ UNCHANGED <<stage, sheet, indices, batch_num, prompts, failed, writes, ckpt>>

\* lines 213 / 338: the response is exhausted
EndParse ==
  /\ pc = "parse"
  /\ ~MoreLines
  /\ lines' = <<>>
  /\ k' = 0
  /\ pc' = "after"
  /\ UNCHANGED <<stage, sheet, df, indices, batch_num, count_processed, History>>

\* where the run goes after a batch: the next batch, or past the loop
AfterLoop == IF stage = "A" THEN "clear_final" ELSE "review"
NextBatch == IF batch_num < NumBatches THEN "call" ELSE AfterLoop

\* lines 219 / 344: if batch_num % 3 == 0
DueEverySecond(b) == b % (CheckpointEvery - 1) = 0
DueEveryFourth(b) == b % (CheckpointEvery + 1) = 0
DueNever(b) == FALSE
CheckpointDue(b) == b % CheckpointEvery = 0

\* lines 218-224 / 343-354: periodic backup decision, then time.sleep(0.5)
AfterBatch ==
  /\ pc = "after"
  /\ pc' = IF CheckpointDue(batch_num) THEN "clear_backup" ELSE NextBatch
  /\ UNCHANGED <<stage, sheet, df, indices, batch_num, lines, k,
                 count_processed, History>>

\* lines 358-379: standardise the supermarket label and mark the reviews
Review ==
  /\ pc = "review"
  /\ df' = [r \in Rows(df) |->
              LET row == [df[r] EXCEPT !.std = standardize(df[r].sm)]
              IN [row EXCEPT !.review = determine_review(row)]]
  /\ pc' = "clear_final"
  /\ UNCHANGED <<stage, sheet, indices, batch_num, lines, k,
                 count_processed, History>>

\* lines 220, 228 / 347, 383: sheet.clear()
SheetClear ==
  /\ pc \in {"clear_backup", "clear_final"}
  /\ sheet' = EmptySheet
  /\ pc' = IF pc = "clear_final" THEN "update_final"
           ELSE IF stage = "A" THEN "update_backup" ELSE "update_A1"
  /\ UNCHANGED <<stage, df, indices, batch_num, lines, k,
                 count_processed, History>>

\* lines 221, 229 / 348-349, 384: sheet.update(...)
SheetUpdate ==
  /\ pc \in {"update_backup", "update_A1", "update_A2", "update_final"}
  /\ IF pc = "update_A1"
     THEN /\ sheet' = [sheet EXCEPT !.header = TRUE]
          /\ pc' = "update_A2"
          /\ UNCHANGED <<writes, ckpt>>
     ELSE /\ sheet' = [header |-> TRUE, rows |-> Serialise(df)]
          /\ writes' = Append(writes, IF pc = "update_final" THEN "final" ELSE "backup")
          /\ ckpt' = sheet'
          /\ pc' = IF pc = "update_final" THEN "done" ELSE NextBatch
  /\ UNCHANGED <<stage, df, indices, batch_num, lines, k, count_processed,
                 prompts, failed, written_by>>

Next ==
  \/ StartFail
  \/ Start
  \/ CallFail
  \/ CallOk
  \/ ParseLine
  \/ EndParse
  \/ AfterBatch
  \/ Review
  \/ SheetClear
  \/ SheetUpdate

Spec == Init /\ [][Next]_vars
SpecRun == InitRun /\ [][Next]_vars
\* the run is one sequential thread: whenever a step is possible it is taken
FairRun == InitRun /\ [][Next]_vars /\ WF_vars(Next)


\* ------------------------------------------------------------ observations
Backups == Cardinality({p \in 1..Len(writes) : writes[p] = "backup"})
Finals == Cardinality({p \in 1..Len(writes) : writes[p] = "final"})
BatchRows(b) == Range(BatchOf(b))
\* the label, role/rationale, timestamp and stored answer of a row
ClassFields(row) == <<row.label, row.aux, row.datum, row.antw>>
\* the row still has the values it was initialised with, as an unresolved row
Pristine(row) == row.label = "" /\ row.datum = "" /\ row.antw = <<>>

\* C1 (as stated): a finished run of N batches made exactly N div 3 backup
\* writes and exactly one final write, whatever calls failed.
C1_AsStated ==
  pc = "done" => (Backups = NumBatches \div 3 /\ Finals = 1)

\* C1 (amended): a finished run of N batches made exactly N div 3 backup writes,
\* each right after a batch whose number is a multiple of 3, and exactly one
\* final write as its last write; except that run_ai_classifier with nothing
\* to process returns without writing at all.
C1_Cadence ==
  pc = "done" =>
    /\ Backups = NumBatches \div 3
    /\ Finals = (IF stage = "A" /\ NumBatches = 0 THEN 0 ELSE 1)
    /\ \A p \in 1..Len(writes) : (writes[p] = "final") <=> (p = Len(writes))

C1_Witness ==
  /\ pc = "done"
  /\ NumBatches >= 6
  /\ Cardinality(failed) >= 2
  /\ Backups = 2
  /\ Finals = 1

\* the run of the scenario: stage F, 45 unresolved rows, only batch 2 fails
C2_Scenario ==
  /\ pc = "done"
  /\ stage = "F"
  /\ total_to_do = ScenarioRows
  /\ failed = {2}
C2_Batches ==
  /\ NumBatches = 3
  /\ prompts = <<BatchOf(1), BatchOf(2), BatchOf(3)>>
  /\ \A r \in BatchRows(2) : Pristine(df[r])

\* C2 (as stated): in the scenario there are 3 batches, batches 1 and 3 are
\* submitted, the rows of batch 2 stay unresolved, and exactly one write occurs.
C2_AsStated ==
  C2_Scenario => (C2_Batches /\ Len(writes) = 1)

\* C2 (amended): in the scenario there are 3 batches, all three are submitted,
\* the rows of batch 2 stay unresolved, and exactly two writes occur: the
\* backup after batch 3 and then the final write.
C2_EndToEnd ==
  C2_Scenario => (C2_Batches /\ writes = <<"backup", "final">>)

C2_Witness ==
  /\ C2_Scenario
  /\ df[BatchOf(1)[1]].label = "Plantaardig"
  /\ df[BatchOf(3)[1]].label = "Plantaardig"
  /\ Cardinality(BatchRows(2)) = batch_size_F
  /\ Cardinality(BatchRows(3)) < batch_size_F

\* C3 (as stated): at the end of a run every row of a batch whose call failed
\* is still unresolved, whatever the other calls returned.
C3_AsStated ==
  pc = "done" =>
    \A b \in failed : \A r \in BatchRows(b) : mask(stage, df[r].label)

\* the labels each stage accepts as a finished classification
ValidLabels == IF stage = "A" THEN {"Plantaardig", "Dierlijk", "Niet relevant"}
               ELSE geldige_class

\* C4 (as stated): a row that was not selected because its label was valid
\* keeps its label, role/rationale and timestamp in every step of the run.
C4_AsStated ==
  [][\A r \in Rows(df) :
       (pc # "idle" /\ df[r].label \in ValidLabels
          /\ \A p \in 1..Len(indices) : indices[p] # r)
       => /\ df'[r].label = df[r].label
          /\ df'[r].aux = df[r].aux
          /\ df'[r].datum = df[r].datum]_vars


\* ------------------------------------------------- selection (C5)
\* the run has just selected its rows and has not yet touched the table
JustSelected == pc \in {"call", "review", "done"} /\ batch_num = 0 /\ writes = <<>>

\* C5 (as stated): in both stages the selected rows are, in table order, the
\* rows whose label is empty, null or outside the valid set of the stage; the
\* selection leaves table and sheet alone and, repeated, gives the same rows.
C5_AsStated ==
  JustSelected =>
    /\ indices = SortedSeq({r \in Rows(df) :
                    df[r].label \in {"", NaN} \/ df[r].label \notin ValidLabels})
    /\ df = sheet.rows /\ sheet = ckpt
    /\ to_process(stage, df) = indices

\* C5 (amended): run_first_pass_and_review selects, in table order, the rows
\* whose label is not one of Dierlijk, Plantaardig, Combinatie (so also the
\* empty ones); run_ai_classifier selects the rows whose label is empty, blank
\* or null, and does not select a row with any other label, valid or not.  The
\* selection leaves table and sheet alone and, repeated, gives the same rows.
C5_Selector ==
  JustSelected =>
    /\ indices = SortedSeq({r \in Rows(df) :
                    IF stage = "A" THEN df[r].label \in {"", " ", NaN}
                    ELSE df[r].label \notin {"Dierlijk", "Plantaardig", "Combinatie"}})
    /\ \A p \in 1..(Len(indices) - 1) : indices[p] < indices[p + 1]
    /\ df = sheet.rows /\ sheet = ckpt
    /\ to_process(stage, df) = indices

C5_Witness ==
  /\ JustSelected
  /\ stage = "A"
  /\ Cardinality(Rows(df)) = 2
  /\ df[0].label = "Onbekend"
  /\ df[1].label = " "
  /\ indices = <<1>>

\* ------------------------------------------------- parser steps (C6-C8)
\* the step is the parsing of one response line, lines'[k']
ParseStep == pc = "parse" /\ k' = k + 1
HasRoleKeyword(line) == InCleanLine(line, "wel") \/ InCleanLine(line, "niet")
HasOriginKeyword(line) ==
  \/ InCleanLine(line, "plantaardig")
  \/ InCleanLine(line, "dierlijk")
  \/ InCleanLine(line, "relevant")
HasOordeelField(line) ==
  \E p \in 1..(Len(line) - 1) :
    line[p] = Wd("oordeel:") /\ ~IsNum(line[p + 1])
HasValidId(t, line) ==
  all_numbers(line) # <<>> /\ all_numbers(line)[1] \in Rows(t)
\* the label, role/rationale and timestamp of every row are left as they were
LabelsKept ==
  \A r \in Rows(df) :
    /\ df'[r].label = df[r].label
    /\ df'[r].aux = df[r].aux
    /\ df'[r].datum = df[r].datum

RoleWords(line) == {p \in 1..Len(line) : line[p] \in {Wd("Wel"), Wd("Niet")}}
OriginWords(line) ==
  {p \in 1..Len(line) :
     line[p] \in {Wd("Plantaardig"), Wd("Dierlijk"), Wd("Niet relevant")}}

\* C7 (as stated): in run_ai_classifier a line with the id of a row, one role
\* word and one origin word writes that role and origin to that row and to no
\* other row; a line without a number changes nothing; and whatever the next
\* line is, the parser takes it and stays in its loop over the lines.
C7_AsStated ==
  [][(pc = "parse" /\ stage = "A" /\ MoreLines) =>
       LET line == lines[k + 1]
       IN /\ pc' = "parse" /\ k' = k + 1
          /\ (/\ HasValidId(df, line)
              /\ Cardinality(RoleWords(line)) = 1
              /\ Cardinality(OriginWords(line)) = 1) =>
                LET id == all_numbers(line)[1]
                    rw == line[CHOOSE p \in RoleWords(line) : TRUE].w
                    ow == line[CHOOSE p \in OriginWords(line) : TRUE].w
                IN /\ df'[id].aux = rw
                   /\ df'[id].label = ow
                   /\ \A r \in Rows(df) \ {id} : df'[r] = df[r]
          /\ all_numbers(line) = <<>> =>
                df' = df /\ count_processed' = count_processed]_vars

\* C7, without its last part: what a parsed line commits.
C7_Precision ==
  [][(ParseStep /\ stage = "A") =>
       LET line == lines[k + 1]
       IN /\ (/\ HasValidId(df, line)
              /\ Cardinality(RoleWords(line)) = 1
              /\ Cardinality(OriginWords(line)) = 1) =>
                LET id == all_numbers(line)[1]
                    rw == line[CHOOSE p \in RoleWords(line) : TRUE].w
                    ow == line[CHOOSE p \in OriginWords(line) : TRUE].w
                IN /\ df'[id].aux = rw
                   /\ df'[id].label = ow
                   /\ \A r \in Rows(df) \ {id} : df'[r] = df[r]
          /\ all_numbers(line) = <<>> =>
                df' = df /\ count_processed' = count_processed]_vars

C7_Witness ==
  /\ pc = "parse" /\ stage = "A" /\ k = 1
  /\ lines[1] = <<Num(1), Wd("Wel"), Wd("Plantaardig")>>
  /\ Cardinality(Rows(df)) = 2
  /\ df[1].aux = "Wel" /\ df[1].label = "Plantaardig" /\ df[1].datum = "nu"
  /\ df[0] = sheet.rows[0]

\* the keywords found anywhere in the line
KeywordsOf(line) ==
  {kw \in {"wel", "niet", "plantaardig", "dierlijk", "relevant"} :
     \E p \in 1..Len(line) : ~IsNum(line[p]) /\ Contains(Lower(line[p].w), kw)}

\* C8: a committed line of run_ai_classifier gets the first role keyword in
\* the order wel, niet and the first origin keyword in the order plantaardig,
\* dierlijk, relevant that occurs in it, wherever in the line they stand.
C8_Priority ==
  (pc = "parse" /\ stage = "A" /\ k >= 1) =>
    LET line == lines[k]
        S == KeywordsOf(line)
    IN (HasValidId(df, line) /\ HasRoleKeyword(line) /\ HasOriginKeyword(line)) =>
         /\ df[all_numbers(line)[1]].aux =
              (IF "wel" \in S THEN "Wel" ELSE "Niet")
         /\ df[all_numbers(line)[1]].label =
              (IF "plantaardig" \in S THEN "Plantaardig"
               ELSE IF "dierlijk" \in S THEN "Dierlijk" ELSE "Niet relevant")

C8_Witness ==
  /\ pc = "parse" /\ stage = "A" /\ k = 1
  /\ lines[1] = <<Num(0), Wd("Dierlijk"), Wd("Wel"), Wd("Plantaardig")>>
  /\ df[0].label = "Plantaardig" /\ df[0].aux = "Wel"


\* ------------------------------------------------- failure isolation (C9)
RunComplete ==
  /\ pc = "done"
  /\ Len(prompts) = NumBatches
  /\ \A b \in 1..NumBatches : prompts[b] = BatchOf(b)
  /\ Finals = 1 /\ writes[Len(writes)] = "final"

\* C9: once a completion call has failed, the run still submits every batch,
\* makes the final write and reaches done; only the failed connection to the
\* store, before any batch, ends a run without that.
C9_Isolation ==
  /\ (failed # {}) ~> RunComplete
  /\ [](pc = "aborted" => (failed = {} /\ prompts = <<>> /\ writes = <<>>))

C9_Witness ==
  /\ RunComplete
  /\ NumBatches >= 4
  /\ {1, 2} \subseteq failed
  /\ NumBatches \notin failed

\* ------------------------------------------------- bounded loss (C10)
\* rows whose classification in memory is not the one in the last checkpoint
Unsaved == {r \in Rows(df) : ClassFields(Serialise(df)[r]) # ClassFields(ckpt.rows[r])}
InsideWrite == pc \in {"update_backup", "update_A1", "update_A2", "update_final"}

\* the batches whose merge wrote a classification that is not yet saved
UnsavedBatches == {written_by[r] : r \in Unsaved}

\* C10 (as stated): at every point outside a write in progress the sheet
\* holds the table as of the last checkpoint, and what memory holds beyond it
\* comes from at most 2 batches.
C10_AsStated ==
  /\ ~InsideWrite => sheet = ckpt
  /\ Cardinality(UnsavedBatches) <= 2

\* C10 (amended): at every point the sheet holds the table as of the last
\* completed write (or the initial load), except between the clear and the
\* last update call of a write in progress, when it holds no rows at all; and
\* what memory holds beyond the last completed write comes from at most 3
\* batches, all among the 3 latest ones.
C10_BoundedLoss ==
  /\ IF InsideWrite THEN sheet.rows = <<>> ELSE sheet = ckpt
  /\ Cardinality(UnsavedBatches) <= 3
  /\ \A b \in UnsavedBatches : b >= 1 /\ b > batch_num - 3

C10_Witness ==
  /\ pc = "after"
  /\ batch_num = 3
  /\ UnsavedBatches = {1, 2, 3}

\* ------------------------------------------------- checkpoint (C11)
\* the sheet holds the header and one record for every row of the table
CompleteSnapshot == sheet.header /\ DOMAIN sheet.rows = DOMAIN ckpt.rows

\* C11 (as stated): at every instant the sheet holds a complete snapshot of
\* the table, the one of the last completed write or of the initial load.
C11_AsStated ==
  CompleteSnapshot /\ sheet.rows = ckpt.rows

\* ------------------------------------------------- completion summary (C12)
\* rows of the selected set that a response line of this run classified
ResolvedThisRun == {r \in Range(indices) : written_by[r] >= 1}

\* C12 (as stated): the count reported by run_ai_classifier is the number of
\* distinct selected rows classified during the run, and is at most the number
\* of rows selected.
C12_AsStated ==
  stage = "A" =>
    /\ count_processed = Cardinality(ResolvedThisRun)
    /\ count_processed <= total_to_do

\* ------------------------------------------------- row-id recovery (C13)
\* rows whose label, role/rationale or timestamp the step changes
ChangedRows ==
  {r \in Rows(df) : <<df'[r].label, df'[r].aux, df'[r].datum>>
                      # <<df[r].label, df[r].aux, df[r].datum>>}
\* the line carries every field its stage needs for a commit
HasLabelFields(line) ==
  IF stage = "A" THEN HasRoleKeyword(line) /\ HasOriginKeyword(line)
  ELSE HasOordeelField(line)
ParsedLabel(line) == IF stage = "A" THEN oorsprong(line) ELSE oordeel(line)

\* C13 (as stated): in both stages a parsed line with a number changes no row
\* but the one whose index is the first number of the line, and a line with
\* the label fields but without a number gives its label to the row at the
\* same position in the batch.
C13_AsStated ==
  [][ParseStep =>
       LET line == lines[k + 1]
       IN /\ all_numbers(line) # <<>> => ChangedRows \subseteq {all_numbers(line)[1]}
          /\ (/\ all_numbers(line) = <<>>
              /\ HasLabelFields(line)
              /\ k + 1 <= Len(batch_indices)) =>
                df'[batch_indices[k + 1]].label = ParsedLabel(line)]_vars

\* ------------------------------------------------- batch partition (C14)
\* the rows listed in the prompts of the run so far
Listed == UNION {Range(prompts[b]) : b \in 1..Len(prompts)}
\* the loop over the batches has ended (or had nothing to do)
LoopOver == pc \in {"review", "clear_final", "update_final", "done"}
SliceLen(b) ==
  IF b * batch_size <= total_to_do THEN batch_size
  ELSE total_to_do - (b - 1) * batch_size
\* rows that no response has touched and that carry a finished classification
ClassifiedAtLoad == {r \in Rows(df) : written_by[r] = 0 /\ df[r].label \in ValidLabels}

\* C14: the b-th prompt of a run lists the b-th slice of batch_size
\* consecutive selected rows (the last slice may be shorter, none is empty);
\* no row is listed twice, a row that was not selected or that was already
\* classified at load is listed in no prompt, and once the loop is over there
\* is one prompt per slice and every selected row has been listed, whether or
\* not the call of its batch failed.
C14_Partition ==
  /\ Len(prompts) = batch_num
  /\ \A b \in 1..Len(prompts) :
       /\ Len(prompts[b]) = SliceLen(b)
       /\ Len(prompts[b]) >= 1
       /\ \A j \in 1..Len(prompts[b]) :
            prompts[b][j] = indices[(b - 1) * batch_size + j]
  /\ Cardinality(Listed) =
       (IF batch_num * batch_size <= total_to_do THEN batch_num * batch_size
        ELSE total_to_do)
  /\ Listed \subseteq Range(indices)
  /\ Listed \cap ClassifiedAtLoad = {}
  /\ LoopOver => (Listed = Range(indices) /\ Cardinality(Listed) = total_to_do)

C14_Witness ==
  /\ pc = "done"
  /\ stage = "F"
  /\ total_to_do = ScenarioRows
  /\ Len(prompts) = NumBatches
  /\ Len(prompts[Len(prompts)]) < batch_size_F
  /\ failed # {}
  /\ ClassifiedAtLoad # {}
  /\ Listed = Range(indices)

\* ------------------------------------------------- frame of the merge (C15)
\* the positions of the batch loop of run_first_pass_and_review other than
\* the parsing of a response
LoopOutsideParse == {"call", "after", "clear_backup", "update_A1", "update_A2"}

\* C15: in the batch loop of run_first_pass_and_review only the parsing of a
\* response changes the table; it consumes at most as many "ID:" lines as the
\* batch has rows, and a consumed line changes no row outside the current
\* batch, so no row of another batch and no row that was not selected,
\* whatever number the line carries.
C15_Frame ==
  [][stage = "F" =>
       /\ pc \in LoopOutsideParse => df' = df
       /\ pc = "parse" =>
            /\ k <= Len(batch_indices)
            /\ k' <= Len(batch_indices)
            /\ \A r \in Rows(df) \ Range(batch_indices) : df'[r] = df[r]
            /\ \A r \in Rows(df) \ Range(indices) : df'[r] = df[r]]_vars

C15_Witness ==
  /\ stage = "F"
  /\ pc = "parse"
  /\ batch_num = 2
  /\ Len(batch_indices) = 1
  /\ Len(lines) = 2
  /\ k = 1
  /\ lines[2] = AnswerLine("F", BatchOf(1)[1], FALSE)
  /\ df[BatchOf(1)[1]].label = "Plantaardig"
  /\ df[batch_indices[1]].label = "Plantaardig"

====
